---------------------------- MODULE Spec2Model ----------------------------
(***************************************************************************)
(* A model of tools/generate_schemas.py: the schema-generation pipeline    *)
(* that reads Kafka sinks from the Materialize catalog, maps their columns *)
(* to Kafka Connect field types, assembles one schema per sink and renders *)
(* the result as a properties file or a JSON document.                     *)
(*                                                                         *)
(* Python strings on which the code computes (lower, strip, endswith, in,  *)
(* replace, +) are sequences of one-character strings; names the code only *)
(* copies (sink names, column names, Kafka Connect type names) are TLA+    *)
(* strings.  An Optional value is a sequence of length 0 (None) or 1.      *)
(***************************************************************************)
EXTENDS Integers, Sequences, FiniteSets, TLC

VARIABLES
    \* ---- the pure-function harness (SpecUnit) ----
    u_op,        \* the function last called: "none", "map_type", "generate_schema",
                 \* "format_properties", "format_json"
    u_arg,       \* its argument
    u_src,       \* for map_type: Some(known type name the argument was built from), or None
    u_ret,       \* its return value
    u_prev,      \* Some(what the call before it, on the same arguments, gave), or None
    \* ---- the logger (module-level, lines 27-28) ----
    log,         \* the warnings and errors emitted so far, in order
    \* ---- the catalog the run reads (external, never written) ----
    mz_sinks,    \* rows of mz_catalog.mz_sinks, in the order a query returns them
    db,          \* mz_materialized_views, mz_tables and mz_columns
    \* ---- one run of main (lines 385-502) ----
    pc,          \* where the run is
    args,        \* the parsed command line
    port,        \* Some(port number) once lines 449-454 have run
    conn,        \* the catalog connection: "none", "open", "closed"
    conn_held,   \* a frame or a traceback still refers to the connection
    cur,         \* the cursor: "none", "open", "closed"
    sink_rows,   \* get_sinks: the rows the sink query returned
    row_i,       \* get_sinks: index of the row the loop is at
    lookups,     \* get_sinks: the column lookups the cursor has executed, in order
    sinks,       \* the Sink list (get_sinks' result, then main's)
    schemas,     \* main: the schemas generated so far
    output,      \* main: Some(formatted text) once formatted
    artifact,    \* Some(text) once written to the file or to standard output
    exc,         \* Some(exception) while one is propagating to main's handler
    escaped,     \* Some(exception) that left main uncaught
    exit_code    \* Some(code) once the process has its exit status

unitvars == <<u_op, u_arg, u_src, u_ret, u_prev>>
catvars == <<mz_sinks, db>>
runvars == <<pc, args, port, conn, conn_held, cur, sink_rows, row_i, lookups, sinks,
             schemas, output, artifact, exc, escaped, exit_code>>
vars == <<unitvars, log, catvars, runvars>>

-----------------------------------------------------------------------------
(* Bounds of the model *)

\* longest run of whitespace put before and after a type name
MaxPad == 1
\* most columns of one catalog object
MaxCols == 3
\* most rows of mz_sinks
MaxSinks == 2

-----------------------------------------------------------------------------
(* Optional values *)

None == <<>>
Some(v) == <<v>>
IsNone(o) == Len(o) = 0
Get(o) == o[1]

-----------------------------------------------------------------------------
(* Python str operations *)

UPPER == <<"A","B","C","D","E","F","G","H","I","J","K","L","M","N","O","P","Q","R","S","T","U","V","W","X","Y","Z">>
LOWER == <<"a","b","c","d","e","f","g","h","i","j","k","l","m","n","o","p","q","r","s","t","u","v","w","x","y","z">>

\* the characters str.strip() removes (ASCII part)
WHITESPACE == {" ", "\t", "\n", "\r", "\f"}

LowerChar(c) ==
    IF \E i \in 1..Len(UPPER) : UPPER[i] = c
    THEN LOWER[CHOOSE i \in 1..Len(UPPER) : UPPER[i] = c]
    ELSE c

UpperChar(c) ==
    IF \E i \in 1..Len(LOWER) : LOWER[i] = c
    THEN UPPER[CHOOSE i \in 1..Len(LOWER) : LOWER[i] = c]
    ELSE c

\* str.lower()
Lower(s) == [i \in 1..Len(s) |-> LowerChar(s[i])]

\* str.upper()
Upper(s) == [i \in 1..Len(s) |-> UpperChar(s[i])]

\* str.strip(): drop leading and trailing whitespace
Strip(s) ==
    LET keep == {i \in 1..Len(s) : s[i] \notin WHITESPACE}
    IN  IF keep = {} THEN <<>>
        ELSE LET first == CHOOSE i \in keep : \A j \in keep : i <= j
                 last  == CHOOSE i \in keep : \A j \in keep : j <= i
             IN  SubSeq(s, first, last)

\* s.startswith(p) at offset i (1-based): s[i .. i+len(p)-1] = p
MatchAt(s, p, i) ==
    /\ i + Len(p) - 1 <= Len(s)
    /\ \A k \in 1..Len(p) : s[i + k - 1] = p[k]

\* s.endswith(suf)
EndsWith(s, suf) ==
    /\ Len(suf) <= Len(s)
    /\ MatchAt(s, suf, Len(s) - Len(suf) + 1)

\* sub in s
Contains(s, sub) == \E i \in 1..(Len(s) - Len(sub) + 1) : MatchAt(s, sub, i)

\* s.replace(old, new) for a non-empty old: every non-overlapping occurrence,
\* scanning from the left
RECURSIVE Replace(_, _, _)
Replace(s, old, new) ==
    IF Len(s) < Len(old) THEN s
    ELSE IF MatchAt(s, old, 1)
         THEN new \o Replace(SubSeq(s, Len(old) + 1, Len(s)), old, new)
         ELSE <<s[1]>> \o Replace(Tail(s), old, new)

-----------------------------------------------------------------------------
(* TypeMapper (lines 49-116) *)

TYPE_MAP ==
       (<<"b","i","g","i","n","t">> :> "int64")
    @@ (<<"i","n","t","e","g","e","r">> :> "int32")
    @@ (<<"i","n","t">> :> "int32")
    @@ (<<"s","m","a","l","l","i","n","t">> :> "int32")
    @@ (<<"r","e","a","l">> :> "float32")
    @@ (<<"d","o","u","b","l","e"," ","p","r","e","c","i","s","i","o","n">> :> "float64")
    @@ (<<"d","o","u","b","l","e">> :> "float64")
    @@ (<<"n","u","m","e","r","i","c">> :> "double")
    @@ (<<"d","e","c","i","m","a","l">> :> "double")
    @@ (<<"t","e","x","t">> :> "string")
    @@ (<<"v","a","r","c","h","a","r">> :> "string")
    @@ (<<"c","h","a","r">> :> "string")
    @@ (<<"c","h","a","r","a","c","t","e","r">> :> "string")
    @@ (<<"c","h","a","r","a","c","t","e","r"," ","v","a","r","y","i","n","g">> :> "string")
    @@ (<<"b","o","o","l","e","a","n">> :> "boolean")
    @@ (<<"b","o","o","l">> :> "boolean")
    @@ (<<"b","y","t","e","a">> :> "bytes")

TS == "org.apache.kafka.connect.data.Timestamp"
DT == "org.apache.kafka.connect.data.Date"
TM == "org.apache.kafka.connect.data.Time"

TEMPORAL_TYPES ==
       (<<"t","i","m","e","s","t","a","m","p">> :> <<"int64", TS>>)
    @@ (<<"t","i","m","e","s","t","a","m","p"," ","w","i","t","h"," ","t","i","m","e"," ","z","o","n","e">> :> <<"int64", TS>>)
    @@ (<<"t","i","m","e","s","t","a","m","p"," ","w","i","t","h","o","u","t"," ","t","i","m","e"," ","z","o","n","e">> :> <<"int64", TS>>)
    @@ (<<"d","a","t","e">> :> <<"int32", DT>>)
    @@ (<<"t","i","m","e">> :> <<"int32", TM>>)
    @@ (<<"t","i","m","e"," ","w","i","t","h"," ","t","i","m","e"," ","z","o","n","e">> :> <<"int32", TM>>)
    @@ (<<"t","i","m","e"," ","w","i","t","h","o","u","t"," ","t","i","m","e"," ","z","o","n","e">> :> <<"int32", TM>>)

\* a warning of the logger
Warning(kind, subject) == [level |-> "WARNING", kind |-> kind, subject |-> subject]
\* an error of the logger
Error(kind, subject) == [level |-> "ERROR", kind |-> kind, subject |-> subject]

\* Normalize with a fault: the input is lower-cased but not trimmed
NormalizeNoStrip(materialize_type) == Lower(materialize_type)

\* line 93: normalized_type = materialize_type.lower().strip()
Normalize(materialize_type) == Strip(Lower(materialize_type))

\* map_type (lines 84-116): the returned triple, and the warnings it logs
map_type(materialize_type) ==
    LET normalized_type == Normalize(materialize_type)
        fallback(kind) ==
            [kafka_type |-> "string", logical_type |-> None, extra_props |-> None,
             warnings |-> <<Warning(kind, materialize_type)>>]
    IN  IF normalized_type \in DOMAIN TEMPORAL_TYPES
        THEN [kafka_type   |-> TEMPORAL_TYPES[normalized_type][1],
              logical_type |-> Some(TEMPORAL_TYPES[normalized_type][2]),
              extra_props  |-> Some([version |-> 1]),
              warnings     |-> <<>>]
        ELSE IF normalized_type \in DOMAIN TYPE_MAP
        THEN [kafka_type   |-> TYPE_MAP[normalized_type],
              logical_type |-> None,
              extra_props  |-> None,
              warnings     |-> <<>>]
        ELSE IF EndsWith(normalized_type, <<"[","]">>) THEN fallback("array")
        ELSE IF Contains(normalized_type, <<"j","s","o","n">>) THEN fallback("json")
        ELSE fallback("unknown")

-----------------------------------------------------------------------------
(* The data classes (lines 31-46) *)

\* Column (lines 31-37)
Column(name, type, nullable, position) ==
    [name |-> name, type |-> type, nullable |-> nullable, position |-> position]

\* Sink (lines 40-46); topic is an Optional, the rest as the extractor found it
Sink(name, topic, source_object, columns) ==
    [name |-> name, topic |-> topic, source_object |-> source_object,
     columns |-> columns]

SeqsUpTo(S, n) == UNION {[1..k -> S] : k \in 0..n}

Range(s) == {s[i] : i \in 1..Len(s)}

Min(a, b) == IF a <= b THEN a ELSE b

-----------------------------------------------------------------------------
(* SchemaGenerator (lines 275-318) *)

\* --schema-namespace (line 433), the default
DefaultNamespace == <<"m","a","t","e","r","i","a","l","i","z","e">>

\* lines 295-309: the field built from one column
Field(column) ==
    LET m == map_type(column.type)
        field == [type |-> m.kafka_type, optional |-> column.nullable,
                  field |-> column.name]
        \* if logical_type: field['name'] = logical_type
        named == ("name" :> Get(m.logical_type)) @@ field
        \* if extra_props: field.update(extra_props)
        updated == IF ~IsNone(m.extra_props) /\ DOMAIN Get(m.extra_props) # {}
                   THEN Get(m.extra_props) @@ named
                   ELSE named
    IN  IF ~IsNone(m.logical_type) /\ Get(m.logical_type) # "" THEN updated ELSE field

\* Fields with a fault: nullable columns are left out of the schema
FieldsDropNullable(columns) ==
    LET kept == SelectSeq(columns, LAMBDA c : ~c.nullable)
    IN  [i \in 1..Len(kept) |-> Field(kept[i])]

\* Fields with a fault: the annotation of a temporal column is lost
FieldsNoLogical(columns) ==
    [i \in 1..Len(columns) |->
        [type |-> Field(columns[i]).type, optional |-> columns[i].nullable,
         field |-> columns[i].name]]

\* lines 292-309: for column in sink.columns: ... fields.append(field)
Fields(columns) == [i \in 1..Len(columns) |-> Field(columns[i])]

\* the warnings the loop of lines 294-309 logs, in column order
RECURSIVE FieldWarnings(_)
FieldWarnings(columns) ==
    IF columns = <<>> THEN <<>>
    ELSE map_type(Head(columns).type).warnings \o FieldWarnings(Tail(columns))

\* generate_schema (lines 282-318)
generate_schema(schema_namespace, sink) ==
    [type     |-> "struct",
     fields   |-> Fields(sink.columns),
     optional |-> FALSE,
     name     |-> schema_namespace \o <<".">> \o sink.source_object]

-----------------------------------------------------------------------------
(* MaterializeSchemaExtractor (lines 119-272) *)

(* A CREATE SINK statement is a sequence of tokens: a bare word, a symbol, a  *)
(* single-quoted literal ('...') or a double-quoted identifier ("..."), each  *)
(* with its text.  Whitespace between tokens is not kept.                     *)
Word(t) == [k |-> "word", t |-> t]
Sym(t)  == [k |-> "sym",  t |-> t]
SQ(t)   == [k |-> "sq",   t |-> t]
DQ(t)   == [k |-> "dq",   t |-> t]

\* the least element of a non-empty set of numbers
First(S) == CHOOSE i \in S : \A j \in S : i <= j

\* line 210: r"TOPIC\s*=\s*'([^']+)'" with re.IGNORECASE, matching at token i
TopicMatchAt(create_sql, i) ==
    /\ i + 2 <= Len(create_sql)
    /\ create_sql[i + 1] = Sym(<<"=">>)
    /\ create_sql[i + 2].k = "sq" /\ create_sql[i + 2].t # <<>>
    /\ create_sql[i].k = "word" /\ Upper(create_sql[i].t) = <<"T","O","P","I","C">>

\* line 215: r'FROM\s+\[[^\s]+\s+AS\s+"[^"]+"\."[^"]+"\."([^"]+)"\]' (case
\* sensitive), matching at token i
SourceMatchAt(create_sql, i) ==
    /\ i + 9 <= Len(create_sql)
    /\ create_sql[i] = Word(<<"F","R","O","M">>)
    /\ create_sql[i + 1] = Sym(<<"[">>)
    /\ create_sql[i + 2].k = "word" /\ create_sql[i + 2].t # <<>>
    /\ create_sql[i + 3] = Word(<<"A","S">>)
    /\ create_sql[i + 4].k = "dq" /\ create_sql[i + 4].t # <<>>
    /\ create_sql[i + 5] = Sym(<<".">>)
    /\ create_sql[i + 6].k = "dq" /\ create_sql[i + 6].t # <<>>
    /\ create_sql[i + 7] = Sym(<<".">>)
    /\ create_sql[i + 8].k = "dq" /\ create_sql[i + 8].t # <<>>
    /\ create_sql[i + 9] = Sym(<<"]">>)

\* _parse_create_sink (lines 202-218): re.search takes the leftmost match
_parse_create_sink(create_sql) ==
    LET topic_match  == {i \in 1..Len(create_sql) : TopicMatchAt(create_sql, i)}
        source_match == {i \in 1..Len(create_sql) : SourceMatchAt(create_sql, i)}
    IN  [topic |-> IF topic_match # {}
                   THEN Some(create_sql[First(topic_match) + 2].t) ELSE None,
         source_object |-> IF source_match # {}
                           THEN Some(create_sql[First(source_match) + 8].t) ELSE None]

\* SinkQuery with a fault: the WHERE s.type = 'kafka' condition is lost
SinkQueryAnyType(rows, sink_names) ==
    LET named(r) == (~IsNone(sink_names) /\ Get(sink_names) # <<>>)
                        => r.name \in Range(Get(sink_names))
        sel == SelectSeq(rows, named)
    IN  [i \in 1..Len(sel) |->
            [sink_name |-> sel[i].name, create_sql |-> sel[i].create_sql]]

\* lines 153-168: the sink query and its fetchall(); "if sink_names:" adds the
\* name filter for a list that is given and not empty
SinkQuery(rows, sink_names) ==
    LET wanted(r) ==
            /\ r.type = "kafka"
            /\ (~IsNone(sink_names) /\ Get(sink_names) # <<>>)
                  => r.name \in Range(Get(sink_names))
        sel == SelectSeq(rows, wanted)
    IN  [i \in 1..Len(sel) |->
            [sink_name |-> sel[i].name, create_sql |-> sel[i].create_sql]]

\* lines 232-245: the columns of the materialized views named object_name
ViewRows(d, object_name) ==
    {c \in d.mz_columns :
        \E v \in d.mz_materialized_views : v.id = c.id /\ v.name = object_name}

\* lines 249-261: the columns of the tables named object_name
TableRows(d, object_name) ==
    {c \in d.mz_columns :
        \E t \in d.mz_tables : t.id = c.id /\ t.name = object_name}

\* ORDER BY c.position: every order of the rows in which the positions do not
\* decrease (rows of equal position come in an order the database chooses)
RECURSIVE OrderByPosition(_)
OrderByPosition(rows) ==
    IF rows = {} THEN {<<>>}
    ELSE LET least == {r \in rows : \A q \in rows : r.position <= q.position}
         IN  UNION {{<<r>> \o rest : rest \in OrderByPosition(rows \ {r})} : r \in least}

\* lines 263-272: the Column list built from the fetched rows
ColumnsOf(rows) ==
    [i \in 1..Len(rows) |->
        Column(rows[i].name, rows[i].type, rows[i].nullable, rows[i].position)]

\* _get_columns with a fault: the table lookup is never made
_get_columns_views_only(d, object_name) ==
    {ColumnsOf(rows) : rows \in OrderByPosition(ViewRows(d, object_name))}

\* _get_columns (lines 220-272): the results the two lookups can give
_get_columns(d, object_name) ==
    LET views == ViewRows(d, object_name)
        rows  == IF views # {} THEN views ELSE TableRows(d, object_name)
    IN  {ColumnsOf(ordered) : ordered \in OrderByPosition(rows)}


\* one cur.execute of _get_columns with its fetchall(): the catalog joined to
\* mz_columns, the name given for %s, and Some(rows fetched) or None when
\* the execute raised; row is the index of the sink row being worked on
Lookup(row, catalog, object_name, rows) ==
    [row |-> row, catalog |-> catalog, object_name |-> object_name, rows |-> rows]

\* ColumnLookups with a fault: the table lookup is issued whatever the
\* materialized-view lookup returned
ColumnLookupsBoth(d, row, object_name, columns) ==
    << Lookup(row, "mz_materialized_views", object_name,
              Some(IF ViewRows(d, object_name) # {} THEN columns ELSE <<>>)),
       Lookup(row, "mz_tables", object_name,
              Some(IF ViewRows(d, object_name) # {} THEN <<>> ELSE columns)) >>

\* lines 245-246 and 249-262: the lookups of a call of _get_columns that
\* returned columns
ColumnLookups(d, row, object_name, columns) ==
    IF ViewRows(d, object_name) # {}
    THEN << Lookup(row, "mz_materialized_views", object_name, Some(columns)) >>
    ELSE << Lookup(row, "mz_materialized_views", object_name, Some(<<>>)),
            Lookup(row, "mz_tables", object_name, Some(columns)) >>

\* the lookups of a call of _get_columns in which an execute raised: the first
\* (line 245), or the second (line 261) after the first returned no rows
ColumnLookupsRaising(d, row, object_name) ==
    { << Lookup(row, "mz_materialized_views", object_name, None) >> }
    \cup (IF ViewRows(d, object_name) = {}
          THEN { << Lookup(row, "mz_materialized_views", object_name, Some(<<>>)),
                    Lookup(row, "mz_tables", object_name, None) >> }
          ELSE {})
-----------------------------------------------------------------------------
(* OutputFormatter (lines 321-382) *)

\* the literal removed from the input topic (lines 344 and 373)
MARKER == <<"-","n","o","s","c","h","e","m","a">>

\* zip(sinks, schemas): pairs up to the shorter list
Zip(a, b) == [i \in 1..Min(Len(a), Len(b)) |-> <<a[i], b[i]>>]

\* lines 344 and 373: input_topic.replace(...) raises AttributeError when the
\* sink's topic is None
FormatRaises(sink_list, schema_list) ==
    \E i \in 1..Min(Len(sink_list), Len(schema_list)) : IsNone(sink_list[i].topic)

\* one line of the properties text
Line(kind, key, value) == [kind |-> kind, key |-> key, value |-> value]

\* line 344
output_topic_properties(input_topic, output_suffix) ==
    Replace(input_topic, MARKER, <<>>) \o output_suffix

\* output_topic_json with a fault: the marker stays in the output topic
output_topic_json_keep_marker(input_topic, output_suffix) ==
    input_topic \o output_suffix

\* line 373
output_topic_json(input_topic, output_suffix) ==
    Replace(input_topic, MARKER, <<>>) \o output_suffix

\* lines 343-352: the four lines of one (sink, schema) pair
PropertiesEntry(sink, schema, output_suffix) ==
    LET input_topic == Get(sink.topic)
    IN  << Line("comment", <<>>, <<sink.name, sink.source_object>>),
           Line("schema.topic", input_topic, schema),
           Line("output.topic", input_topic,
                output_topic_properties(input_topic, output_suffix)),
           Line("blank", <<>>, <<>>) >>

RECURSIVE PropertiesLines(_, _)
PropertiesLines(pairs, output_suffix) ==
    IF pairs = <<>> THEN <<>>
    ELSE PropertiesEntry(Head(pairs)[1], Head(pairs)[2], output_suffix)
            \o PropertiesLines(Tail(pairs), output_suffix)

\* format_properties with a fault: the two header lines are written only by
\* the first call made in the process
format_properties_header_once(sink_list, schema_list, output_suffix) ==
    [format |-> "properties",
     lines  |-> (IF u_op = "none"
                 THEN << Line("comment", <<>>, "Generated schema configurations"),
                         Line("comment", <<>>, "Materialize JSON Schema Attacher") >>
                 ELSE <<>>)
                \o << Line("blank", <<>>, <<>>) >>
                \o PropertiesLines(Zip(sink_list, schema_list), output_suffix)]

\* format_properties (lines 324-354): the lines that '\n'.join puts together
format_properties(sink_list, schema_list, output_suffix) ==
    [format |-> "properties",
     lines  |-> << Line("comment", <<>>, "Generated schema configurations"),
                   Line("comment", <<>>, "Materialize JSON Schema Attacher"),
                   Line("blank", <<>>, <<>>) >>
                \o PropertiesLines(Zip(sink_list, schema_list), output_suffix)]

\* output[key] = value on a dict that keeps insertion order
DictSet(d, key, value) ==
    IF \E i \in 1..Len(d) : d[i].key = key
    THEN [i \in 1..Len(d) |->
            IF d[i].key = key THEN [key |-> key, value |-> value] ELSE d[i]]
    ELSE Append(d, [key |-> key, value |-> value])

\* lines 371-380: the loop filling the dict
RECURSIVE JsonEntries(_, _, _)
JsonEntries(pairs, output_suffix, out) ==
    IF pairs = <<>> THEN out
    ELSE LET sink == Head(pairs)[1]
             input_topic == Get(sink.topic)
         IN  JsonEntries(Tail(pairs), output_suffix,
                DictSet(out, sink.name,
                    [input_topic   |-> input_topic,
                     output_topic  |-> output_topic_json(input_topic, output_suffix),
                     source_object |-> sink.source_object,
                     schema        |-> Head(pairs)[2]]))

\* format_json (lines 356-382): the object json.dumps writes, as its list of members
format_json(sink_list, schema_list, output_suffix) ==
    [format  |-> "json",
     entries |-> JsonEntries(Zip(sink_list, schema_list), output_suffix, <<>>)]


\* a call of a formatter: the text it returns, or the exception it raises
\* (lines 481-484 choose the formatter in main)
FormatterCall(format, sink_list, schema_list, output_suffix) ==
    IF FormatRaises(sink_list, schema_list)
    THEN [raised |-> Some("AttributeError"), text |-> None]
    ELSE [raised |-> None,
          text   |-> Some(IF format = "properties"
                          THEN format_properties(sink_list, schema_list, output_suffix)
                          ELSE format_json(sink_list, schema_list, output_suffix))]

-----------------------------------------------------------------------------
(* Inputs of the pure functions *)

KnownNames == DOMAIN TYPE_MAP \cup DOMAIN TEMPORAL_TYPES

\* the whitespace put around a type name
PadChars == {" ", "\t", "\n"}
Pads == SeqsUpTo(PadChars, MaxPad)

CaseVariants == {"asis", "upper", "capitalize", "alternate"}
Recase(v, s) ==
    CASE v = "asis"       -> s
      [] v = "upper"      -> Upper(s)
      [] v = "capitalize" -> [i \in 1..Len(s) |-> IF i = 1 THEN UpperChar(s[i]) ELSE s[i]]
      [] v = "alternate"  -> [i \in 1..Len(s) |-> IF i % 2 = 0 THEN UpperChar(s[i]) ELSE s[i]]

\* strings that are no known type name in any case or padding:
\* "", "\t", "uuid", "interval", "timestamptz", "big int", "double  precision",
\* "time with  time zone", "_text", "text[]", "INT[] ", "timestamp[]", "jsonb",
\* "JSON", " Json[] "
OtherStrings ==
    { <<>>, <<"\t">>, <<"u","u","i","d">>, <<"i","n","t","e","r","v","a","l">>, <<"t","i","m","e","s","t","a","m","p","t","z">>, <<"b","i","g"," ","i","n","t">>,
      <<"d","o","u","b","l","e"," "," ","p","r","e","c","i","s","i","o","n">>, <<"t","i","m","e"," ","w","i","t","h"," "," ","t","i","m","e"," ","z","o","n","e">>, <<"_","t","e","x","t">>, <<"t","e","x","t","[","]">>,
      <<"I","N","T","[","]"," ">>, <<"t","i","m","e","s","t","a","m","p","[","]">>, <<"j","s","o","n","b">>, <<"J","S","O","N">>, <<" ","J","s","o","n","[","]"," ">> }

\* the columns a catalog object is made of:
\*   id bigint not null, email text null, created_at timestamp not null,
\*   seen_at " TIMESTAMP WITH TIME ZONE " null, tags text[] null,
\*   payload jsonb null, born "Date" not null, ref uuid not null
ColumnPool ==
    { [name |-> "id",         type |-> <<"b","i","g","i","n","t">>, nullable |-> FALSE],
      [name |-> "email",      type |-> <<"t","e","x","t">>, nullable |-> TRUE],
      [name |-> "created_at", type |-> <<"t","i","m","e","s","t","a","m","p">>, nullable |-> FALSE],
      [name |-> "seen_at",    type |-> <<" ","T","I","M","E","S","T","A","M","P"," ","W","I","T","H"," ","T","I","M","E"," ","Z","O","N","E"," ">>, nullable |-> TRUE],
      [name |-> "tags",       type |-> <<"t","e","x","t","[","]">>, nullable |-> TRUE],
      [name |-> "payload",    type |-> <<"j","s","o","n","b">>, nullable |-> TRUE],
      [name |-> "born",       type |-> <<"D","a","t","e">>, nullable |-> FALSE],
      [name |-> "ref",        type |-> <<"u","u","i","d">>, nullable |-> FALSE] }

\* the columns of one object, numbered by position
Columns(cols) ==
    [i \in 1..Len(cols) |-> Column(cols[i].name, cols[i].type, cols[i].nullable, i)]

ColumnLists == {Columns(cs) : cs \in SeqsUpTo(ColumnPool, MaxCols) \ {<<>>}}

\* the sinks handed to a formatter: two of the same name, one without a topic
\* and one whose topic has no marker
FormatSinkPool ==
    { Sink("s1", Some(<<"o","r","d","e","r","s","-","n","o","s","c","h","e","m","a">>), <<"u","s","e","r","s">>,
           Columns(<< [name |-> "id", type |-> <<"b","i","g","i","n","t">>, nullable |-> FALSE],
                      [name |-> "created_at", type |-> <<"t","i","m","e","s","t","a","m","p">>, nullable |-> FALSE] >>)),
      Sink("s1", Some(<<"a","-","n","o","s","c","h","e","m","a","-","b","-","n","o","s","c","h","e","m","a">>), <<"a","c","c","o","u","n","t","s">>,
           Columns(<< [name |-> "ref", type |-> <<"u","u","i","d">>, nullable |-> FALSE] >>)),
      Sink("s2", None, <<"u","s","e","r","s">>,
           Columns(<< [name |-> "email", type |-> <<"t","e","x","t">>, nullable |-> TRUE] >>)),
      Sink("s3", Some(<<"u","s","e","r","s">>), <<"u","s","e","r","s">>,
           Columns(<< [name |-> "email", type |-> <<"t","e","x","t">>, nullable |-> TRUE] >>)) }

\* the (sinks, schemas, output_suffix) of a formatter call: the schemas main
\* generates for the sinks (lines 472-477), or that list without its last
FormatInputs ==
    { [sinks |-> sl, schemas |-> SubSeq([i \in 1..Len(sl) |-> generate_schema(DefaultNamespace, sl[i])], 1, Len(sl) - cut), output_suffix |-> suffix] :
        sl \in SeqsUpTo(FormatSinkPool, MaxSinks), cut \in {0, 1},
        suffix \in {<<"-","w","i","t","h","s","c","h","e","m","a">>, <<>>} }

-----------------------------------------------------------------------------
(* The catalogs and command lines of a run *)

\* FROM [<id> AS "materialize"."public"."<object>"]
FromObject(id, object) ==
    << Word(<<"F","R","O","M">>), Sym(<<"[">>), Word(id), Word(<<"A","S">>), DQ(<<"m","a","t","e","r","i","a","l","i","z","e">>), Sym(<<".">>),
       DQ(<<"p","u","b","l","i","c">>), Sym(<<".">>), DQ(object), Sym(<<"]">>) >>

\* FROM "materialize"."public"."<object>": no bracketed id, which line 215 needs
FromBare(object) ==
    << Word(<<"F","R","O","M">>), DQ(<<"m","a","t","e","r","i","a","l","i","z","e">>), Sym(<<".">>), DQ(<<"p","u","b","l","i","c">>), Sym(<<".">>), DQ(object) >>

\* INTO KAFKA CONNECTION [u9 AS "materialize"."public"."kafka_conn"]
IntoKafka ==
    << Word(<<"I","N","T","O">>), Word(<<"K","A","F","K","A">>), Word(<<"C","O","N","N","E","C","T","I","O","N">>), Sym(<<"[">>), Word(<<"u","9">>),
       Word(<<"A","S">>), DQ(<<"m","a","t","e","r","i","a","l","i","z","e">>), Sym(<<".">>), DQ(<<"p","u","b","l","i","c">>), Sym(<<".">>),
       DQ(<<"k","a","f","k","a","_","c","o","n","n">>), Sym(<<"]">>) >>

\* (<keyword> = '<topic>')
TopicIs(keyword, topic) ==
    << Sym(<<"(">>), Word(keyword), Sym(<<"=">>), SQ(topic), Sym(<<")">>) >>

\* (TOPIC '<topic>'): no "=", which line 210 needs
TopicBare(topic) ==
    << Sym(<<"(">>), Word(<<"T","O","P","I","C">>), SQ(topic), Sym(<<")">>) >>

CreateSink == << Word(<<"C","R","E","A","T","E">>), Word(<<"S","I","N","K">>) >>

\* the create_sql texts of the sinks
SqlOrders   == CreateSink \o FromObject(<<"u","1">>, <<"u","s","e","r","s">>) \o IntoKafka
                   \o TopicIs(<<"T","O","P","I","C">>, <<"o","r","d","e","r","s","-","n","o","s","c","h","e","m","a">>)
SqlNoTopic  == CreateSink \o FromObject(<<"u","1">>, <<"u","s","e","r","s">>) \o IntoKafka
                   \o TopicBare(<<"u","s","e","r","s","-","n","o","s","c","h","e","m","a">>)
SqlNoSource == CreateSink \o FromBare(<<"u","s","e","r","s">>) \o IntoKafka
                   \o TopicIs(<<"T","O","P","I","C">>, <<"e","v","e","n","t","s">>)
SqlMissing  == CreateSink \o FromObject(<<"u","7">>, <<"m","i","s","s","i","n","g">>) \o IntoKafka
                   \o TopicIs(<<"T","O","P","I","C">>, <<"g","o","n","e","-","n","o","s","c","h","e","m","a">>)
SqlAccounts == CreateSink \o FromObject(<<"u","2">>, <<"a","c","c","o","u","n","t","s">>) \o IntoKafka
                   \o TopicIs(<<"t","o","p","i","c">>, <<"a","-","n","o","s","c","h","e","m","a","-","b","-","n","o","s","c","h","e","m","a">>)
SqlPlain    == CreateSink \o FromObject(<<"u","1">>, <<"u","s","e","r","s">>) \o IntoKafka
                   \o TopicIs(<<"T","O","P","I","C">>, <<"u","s","e","r","s">>)
SqlAudit    == CreateSink \o FromObject(<<"u","2">>, <<"a","c","c","o","u","n","t","s">>) \o IntoKafka
                   \o TopicIs(<<"T","O","P","I","C">>, <<"a","u","d","i","t">>)

\* a row of mz_catalog.mz_sinks; a sink's name is unique within its schema
SinkRow(schema, name, type, create_sql) ==
    [schema |-> schema, name |-> name, type |-> type, create_sql |-> create_sql]

SinkRowPool ==
    { SinkRow("public",  "s1", "kafka",   SqlOrders),
      SinkRow("public",  "s2", "kafka",   SqlNoTopic),
      SinkRow("public",  "s3", "kafka",   SqlNoSource),
      SinkRow("public",  "s4", "kafka",   SqlMissing),
      SinkRow("staging", "s1", "kafka",   SqlAccounts),
      SinkRow("staging", "s2", "kafka",   SqlPlain),
      SinkRow("public",  "s5", "iceberg", SqlAudit) }

\* the contents mz_sinks can have: rows of distinct (schema, name)
SinkCatalogs ==
    {rows \in SeqsUpTo(SinkRowPool, MaxSinks) :
        \A i, j \in 1..Len(rows) :
            i < j => <<rows[i].schema, rows[i].name>> # <<rows[j].schema, rows[j].name>>}

\* a row of mz_columns
ColumnRow(id, position, name, type, nullable) ==
    [id |-> id, position |-> position, name |-> name, type |-> type,
     nullable |-> nullable]

UsersColumns(id) ==
    { ColumnRow(id, 1, "id", <<"b","i","g","i","n","t">>, FALSE),
      ColumnRow(id, 2, "email", <<"t","e","x","t">>, TRUE),
      ColumnRow(id, 3, "created_at", <<"t","i","m","e","s","t","a","m","p">>, FALSE) }

AccountsColumns(id) ==
    { ColumnRow(id, 1, "ref", <<"u","u","i","d">>, FALSE),
      ColumnRow(id, 2, "payload", <<"j","s","o","n","b">>, TRUE) }

Object(id, schema, name) == [id |-> id, schema |-> schema, name |-> name]

EmptyDb == [mz_materialized_views |-> {}, mz_tables |-> {}, mz_columns |-> {}]

\* the objects of the catalog: users a materialized view and accounts a table;
\* or users a table and no accounts; or, besides the first, a schema staging
\* with materialized views of its own named users and accounts (an object's
\* name is unique within its schema, not across schemas)
ObjectCatalogs ==
    { [mz_materialized_views |-> {Object(<<"u","1">>, "public", <<"u","s","e","r","s">>)},
       mz_tables             |-> {Object(<<"u","2">>, "public", <<"a","c","c","o","u","n","t","s">>)},
       mz_columns            |-> UsersColumns(<<"u","1">>) \cup AccountsColumns(<<"u","2">>)],
      [mz_materialized_views |-> {},
       mz_tables             |-> {Object(<<"u","1">>, "public", <<"u","s","e","r","s">>)},
       mz_columns            |-> UsersColumns(<<"u","1">>)],
      [mz_materialized_views |-> {Object(<<"u","1">>, "public", <<"u","s","e","r","s">>),
                                  Object(<<"u","3">>, "staging", <<"u","s","e","r","s">>),
                                  Object(<<"u","4">>, "staging", <<"a","c","c","o","u","n","t","s">>)},
       mz_tables             |-> {Object(<<"u","2">>, "public", <<"a","c","c","o","u","n","t","s">>)},
       mz_columns            |-> UsersColumns(<<"u","1">>) \cup AccountsColumns(<<"u","2">>)
                                    \cup {ColumnRow(<<"u","3">>, 1, "user_id", <<"t","e","x","t">>, FALSE),
                                          ColumnRow(<<"u","4">>, 1, "total", <<"n","u","m","e","r","i","c">>, TRUE)}] }

\* --sink: absent (None) or given once or more (action='append', line 421)
SinkFilters == { None, Some(<<"s1", "s5">>), Some(<<"s9">>) }

\* --output/-o (line 429) with --output-suffix (line 435): standard output
\* under the default suffix, or a file under another suffix
Destinations ==
    { [output |-> None, output_suffix |-> <<"-","w","i","t","h","s","c","h","e","m","a">>],
      [output |-> Some("schemas.out"), output_suffix |-> <<"-","o","u","t">>] }

\* the parsed command lines
ArgSets ==
    { [sinks |-> f, format |-> fmt, output |-> d.output,
       schema_namespace |-> DefaultNamespace, output_suffix |-> d.output_suffix] :
        f \in SinkFilters, fmt \in {"properties", "json"}, d \in Destinations }

\* MATERIALIZE_PORT: unset, "6875", " 6875 ", "abc", ""
PortEnvs == { None, Some(<<"6","8","7","5">>), Some(<<" ","6","8","7","5"," ">>), Some(<<"a","b","c">>), Some(<<>>) }

-----------------------------------------------------------------------------
(* One run of main (lines 385-502) *)

\* --port (line 411), the default
DefaultPort == 6875

DIGITS == <<"0","1","2","3","4","5","6","7","8","9">>

DigitValue(c) == (CHOOSE i \in 1..Len(DIGITS) : DIGITS[i] = c) - 1

RECURSIVE DecimalValue(_)
DecimalValue(s) ==
    IF s = <<>> THEN 0
    ELSE 10 * DecimalValue(SubSeq(s, 1, Len(s) - 1)) + DigitValue(s[Len(s)])

\* int(str): whitespace around, an optional sign, then digits only
IntParses(s) ==
    LET t == Strip(s)
        d == IF t # <<>> /\ t[1] \in {"+", "-"} THEN Tail(t) ELSE t
    IN  d # <<>> /\ \A i \in 1..Len(d) : d[i] \in Range(DIGITS)

IntOf(s) ==
    LET t == Strip(s)
    IN  IF t[1] = "-" THEN 0 - DecimalValue(Tail(t))
        ELSE IF t[1] = "+" THEN DecimalValue(Tail(t))
        ELSE DecimalValue(t)

\* no run in progress (the state of the pure-function harness)
IdleRun ==
    /\ pc = "idle"
    /\ args = <<>>
    /\ port = None
    /\ conn = "none"
    /\ conn_held = FALSE
    /\ cur = "none"
    /\ sink_rows = <<>>
    /\ row_i = 0
    /\ lookups = <<>>
    /\ sinks = <<>>
    /\ schemas = <<>>
    /\ output = None
    /\ artifact = None
    /\ exc = None
    /\ escaped = None
    /\ exit_code = None

Init ==
    /\ u_op = "none" /\ u_arg = <<>> /\ u_src = None /\ u_ret = <<>> /\ u_prev = None
    /\ log = <<>>
    /\ mz_sinks \in SinkCatalogs
    /\ db \in ObjectCatalogs
    /\ pc = "start"
    /\ args = <<>>
    /\ port = None
    /\ conn = "none"
    /\ conn_held = FALSE
    /\ cur = "none"
    /\ sink_rows = <<>>
    /\ row_i = 0
    /\ lookups = <<>>
    /\ sinks = <<>>
    /\ schemas = <<>>
    /\ output = None
    /\ artifact = None
    /\ exc = None
    /\ escaped = None
    /\ exit_code = None

\* line 442, parser.parse_args(): a command line argparse rejects ends the
\* process with status 2, --help with status 0 (SystemExit in both cases)
ParseArgs ==
    /\ pc = "start"
    /\ \/ /\ \E a \in ArgSets : args' = a
          /\ pc' = "env"
          /\ UNCHANGED <<escaped, exit_code>>
       \/ /\ \E code \in {0, 2} :
                /\ escaped' = Some("SystemExit")
                /\ exit_code' = Some(code)
          /\ pc' = "exit"
          /\ UNCHANGED args
    /\ UNCHANGED <<unitvars, lookups, log, catvars, port, conn, conn_held, cur, sink_rows,
                   row_i, sinks, schemas, output, artifact, exc>>

\* lines 449-454: port = int(os.getenv('MATERIALIZE_PORT', args.port)), outside
\* the try: a ValueError leaves main, and the interpreter exits with status 1
ReadEnv ==
    /\ pc = "env"
    /\ \E env \in PortEnvs :
          IF IsNone(env) THEN
              /\ port' = Some(DefaultPort)
              /\ pc' = "connect"
              /\ UNCHANGED <<escaped, exit_code>>
          ELSE IF IntParses(Get(env)) THEN
              /\ port' = Some(IntOf(Get(env)))
              /\ pc' = "connect"
              /\ UNCHANGED <<escaped, exit_code>>
          ELSE
              /\ escaped' = Some("ValueError")
              /\ exit_code' = Some(1)
              /\ pc' = "exit"
              /\ UNCHANGED port
    /\ UNCHANGED <<unitvars, lookups, log, catvars, args, conn, conn_held, cur, sink_rows,
                   row_i, sinks, schemas, output, artifact, exc>>

\* lines 150-151 with connect (lines 132-138): the connection and its cursor
\* are opened, or psycopg2.connect fails, which is logged and raised
Connect ==
    /\ pc = "connect"
    /\ \/ /\ conn' = "open"
          /\ conn_held' = TRUE
          /\ cur' = "open"
          /\ pc' = "query"
          /\ UNCHANGED <<log, exc>>
       \/ /\ log' = Append(log, Error("connect_failed", <<>>))
          /\ exc' = Some("psycopg2.Error")
          /\ pc' = "except"
          /\ UNCHANGED <<conn, conn_held, cur>>
    /\ UNCHANGED <<unitvars, lookups, catvars, args, port, sink_rows, row_i, sinks,
                   schemas, output, artifact, escaped, exit_code>>

(* Leaving the two with blocks of lines 150-151.  The cursor's __exit__      *)
(* closes the cursor.  The connection's __exit__ (psycopg2) commits, or      *)
(* rolls back when an exception leaves the block; it does not close the      *)
(* connection, which stays open until the object is finalized.               *)

\* lines 161-172: the sink query; an empty result is logged and returned
QuerySinks ==
    /\ pc = "query"
    /\ \/ \* cur.execute raises: the blocks are left by the exception, whose
          \* traceback keeps get_sinks' frame, and with it the connection
          /\ cur' = "closed"
          /\ exc' = Some("psycopg2.Error")
          /\ pc' = "except"
          /\ UNCHANGED <<log, sink_rows, row_i, sinks, conn_held>>
       \/ /\ sink_rows' = SinkQuery(mz_sinks, args.sinks)
          /\ sinks' = <<>>
          /\ IF sink_rows' = <<>>
             THEN /\ log' = Append(log, Warning("no_kafka_sinks", <<>>))
                  /\ cur' = "closed"
                  /\ conn_held' = FALSE
                  /\ pc' = "returned"
                  /\ UNCHANGED row_i
             ELSE /\ row_i' = 1
                  /\ pc' = "loop"
                  /\ UNCHANGED <<log, cur, conn_held>>
          /\ UNCHANGED exc
    /\ UNCHANGED <<unitvars, lookups, catvars, args, port, conn, schemas, output, artifact,
                   escaped, exit_code>>

\* lines 175-198: one pass of the loop over sink_rows
ProcessRow ==
    /\ pc = "loop"
    /\ row_i <= Len(sink_rows)
    /\ LET row == sink_rows[row_i]
           parsed == _parse_create_sink(row.create_sql)
           topic == parsed.topic
           source_object == parsed.source_object
       IN  IF IsNone(source_object) \/ Get(source_object) = <<>>
           THEN \* lines 182-184
                /\ log' = Append(log, Warning("no_source_object", row.sink_name))
                /\ row_i' = row_i + 1
                /\ UNCHANGED <<lookups, sinks, cur, exc, pc>>
           ELSE \/ \* a lookup of _get_columns raises
                   /\ \E issued \in ColumnLookupsRaising(db, row_i, Get(source_object)) :
                          lookups' = lookups \o issued
                   /\ cur' = "closed"
                   /\ exc' = Some("psycopg2.Error")
                   /\ pc' = "except"
                   /\ UNCHANGED <<log, row_i, sinks>>
                \/ \E columns \in _get_columns(db, Get(source_object)) :
                      /\ lookups' = lookups \o
                            ColumnLookups(db, row_i, Get(source_object), columns)
                      /\ IF columns = <<>>
                         THEN \* lines 189-191
                              /\ log' = Append(log, Warning("no_columns", row.sink_name))
                              /\ UNCHANGED sinks
                         ELSE \* lines 193-198
                              /\ sinks' = Append(sinks,
                                    Sink(row.sink_name, topic, Get(source_object), columns))
                              /\ UNCHANGED log
                      /\ row_i' = row_i + 1
                      /\ UNCHANGED <<cur, exc, pc>>
    /\ UNCHANGED <<unitvars, catvars, args, port, conn, conn_held, sink_rows,
                   schemas, output, artifact, escaped, exit_code>>

\* line 200: return sinks, leaving the with blocks; get_sinks' frame is gone
ReturnSinks ==
    /\ pc = "loop"
    /\ row_i > Len(sink_rows)
    /\ cur' = "closed"
    /\ conn_held' = FALSE
    /\ pc' = "returned"
    /\ UNCHANGED <<unitvars, lookups, log, catvars, args, port, conn, sink_rows, row_i,
                   sinks, schemas, output, artifact, exc, escaped, exit_code>>

\* CheckSinks with a fault: a run that found no sink ends with 0
CheckSinksReturnsZero ==
    /\ pc = "returned"
    /\ IF sinks = <<>>
       THEN /\ log' = Append(log, Error("no_sinks_found", <<>>))
            /\ exit_code' = Some(0)
            /\ pc' = "exit"
       ELSE /\ pc' = "generate"
            /\ UNCHANGED <<log, exit_code>>
    /\ UNCHANGED <<unitvars, lookups, catvars, args, port, conn, conn_held, cur, sink_rows,
                   row_i, sinks, schemas, output, artifact, exc, escaped>>

\* lines 464-468
CheckSinks ==
    /\ pc = "returned"
    /\ IF sinks = <<>>
       THEN /\ log' = Append(log, Error("no_sinks_found", <<>>))
            /\ exit_code' = Some(1)
            /\ pc' = "exit"
       ELSE /\ pc' = "generate"
            /\ UNCHANGED <<log, exit_code>>
    /\ UNCHANGED <<unitvars, lookups, catvars, args, port, conn, conn_held, cur, sink_rows,
                   row_i, sinks, schemas, output, artifact, exc, escaped>>

RECURSIVE SchemaWarnings(_)
SchemaWarnings(sink_list) ==
    IF sink_list = <<>> THEN <<>>
    ELSE FieldWarnings(Head(sink_list).columns) \o SchemaWarnings(Tail(sink_list))

\* lines 470-477: a schema for every sink
GenerateSchemas ==
    /\ pc = "generate"
    /\ schemas' = [i \in 1..Len(sinks) |-> generate_schema(args.schema_namespace, sinks[i])]
    /\ log' = log \o SchemaWarnings(sinks)
    /\ pc' = "format"
    /\ UNCHANGED <<unitvars, lookups, catvars, args, port, conn, conn_held, cur, sink_rows,
                   row_i, sinks, output, artifact, exc, escaped, exit_code>>

\* lines 479-484
FormatOutput ==
    /\ pc = "format"
    /\ IF FormatRaises(sinks, schemas)
       THEN /\ exc' = Some("AttributeError")
            /\ pc' = "except"
            /\ UNCHANGED output
       ELSE /\ output' = Some(IF args.format = "properties"
                              THEN format_properties(sinks, schemas, args.output_suffix)
                              ELSE format_json(sinks, schemas, args.output_suffix))
            /\ pc' = "write"
            /\ UNCHANGED exc
    /\ UNCHANGED <<unitvars, lookups, log, catvars, args, port, conn, conn_held, cur,
                   sink_rows, row_i, sinks, schemas, artifact, escaped, exit_code>>

\* lines 486-495: the text goes to the file (open can fail) or to standard output
WriteOutput ==
    /\ pc = "write"
    /\ \/ /\ artifact' = output
          /\ exit_code' = Some(0)
          /\ pc' = "exit"
          /\ UNCHANGED exc
       \/ /\ ~IsNone(args.output)
          /\ exc' = Some("OSError")
          /\ pc' = "except"
          /\ UNCHANGED <<artifact, exit_code>>
    /\ UNCHANGED <<unitvars, lookups, log, catvars, args, port, conn, conn_held, cur,
                   sink_rows, row_i, sinks, schemas, output, escaped>>

\* lines 497-502: the handler logs the error and returns 1; leaving it drops
\* the exception and the frames its traceback held
HandleException ==
    /\ pc = "except"
    /\ log' = Append(log, Error("error", <<>>))
    /\ exit_code' = Some(1)
    /\ exc' = None
    /\ conn_held' = FALSE
    /\ pc' = "exit"
    /\ UNCHANGED <<unitvars, lookups, catvars, args, port, conn, cur, sink_rows, row_i,
                   sinks, schemas, output, artifact, escaped>>

\* the connection object, no longer referred to, is finalized, which closes the
\* connection; when this happens is the interpreter's choice
Finalize ==
    /\ conn = "open"
    /\ ~conn_held
    /\ conn' = "closed"
    /\ UNCHANGED <<unitvars, lookups, log, catvars, pc, args, port, conn_held, cur,
                   sink_rows, row_i, sinks, schemas, output, artifact, exc,
                   escaped, exit_code>>

Next ==
    \/ ParseArgs
    \/ ReadEnv
    \/ Connect
    \/ QuerySinks
    \/ ProcessRow
    \/ ReturnSinks
    \/ CheckSinks
    \/ GenerateSchemas
    \/ FormatOutput
    \/ WriteOutput
    \/ HandleException
    \/ Finalize

Spec == Init /\ [][Next]_vars

-----------------------------------------------------------------------------
(* The pure-function harness: one call of one function per behaviour *)

InitUnit ==
    /\ u_op = "none"
    /\ u_arg = <<>>
    /\ u_src = None
    /\ u_ret = <<>>
    /\ u_prev = None
    /\ log = <<>>
    /\ mz_sinks = <<>>
    /\ db = EmptyDb
    /\ IdleRun

\* map_type on a known type name in some letter case, padded with whitespace
MapTypeKnownCall ==
    /\ u_op = "none"
    /\ \E n \in KnownNames, v \in CaseVariants, l \in Pads, r \in Pads :
          LET s == l \o Recase(v, n) \o r
          IN  /\ u_arg' = s
              /\ u_src' = Some(n)
              /\ u_ret' = map_type(s)
              /\ log' = log \o map_type(s).warnings
    /\ u_op' = "map_type"
    /\ UNCHANGED <<u_prev, catvars, runvars>>

\* map_type on any other string
MapTypeOtherCall ==
    /\ u_op = "none"
    /\ \E s \in OtherStrings, l \in Pads, r \in Pads :
          /\ u_arg' = l \o s \o r
          /\ u_src' = None
          /\ u_ret' = map_type(l \o s \o r)
          /\ log' = log \o map_type(l \o s \o r).warnings
    /\ u_op' = "map_type"
    /\ UNCHANGED <<u_prev, catvars, runvars>>

\* generate_schema on a sink with some columns
GenerateSchemaCall ==
    /\ u_op = "none"
    /\ \E cols \in ColumnLists :
          LET sink == Sink("s1", Some(<<"o","r","d","e","r","s","-","n","o","s","c","h","e","m","a">>), <<"u","s","e","r","s">>, cols)
          IN  /\ u_arg' = sink
              /\ u_ret' = generate_schema(DefaultNamespace, sink)
              /\ log' = log \o FieldWarnings(cols)
    /\ u_src' = None
    /\ u_op' = "generate_schema"
    /\ UNCHANGED <<u_prev, catvars, runvars>>

\* format_properties or format_json on some sinks and schemas
FormatCall ==
    /\ u_op = "none"
    /\ \E format \in {"properties", "json"}, a \in FormatInputs :
          /\ u_op' = IF format = "properties" THEN "format_properties" ELSE "format_json"
          /\ u_arg' = a
          /\ u_ret' = FormatterCall(format, a.sinks, a.schemas, a.output_suffix)
    /\ UNCHANGED <<u_src, u_prev, log, catvars, runvars>>

\* the same formatter called once more on the same arguments
FormatAgainCall ==
    /\ u_op \in {"format_properties", "format_json"}
    /\ IsNone(u_prev)
    /\ u_prev' = Some(u_ret)
    /\ u_ret' = FormatterCall(IF u_op = "format_properties" THEN "properties" ELSE "json",
                              u_arg.sinks, u_arg.schemas, u_arg.output_suffix)
    /\ UNCHANGED <<u_op, u_arg, u_src, log, catvars, runvars>>

NextUnit ==
    \/ MapTypeKnownCall
    \/ MapTypeOtherCall
    \/ GenerateSchemaCall
    \/ FormatCall
    \/ FormatAgainCall

SpecUnit == InitUnit /\ [][NextUnit]_vars

-----------------------------------------------------------------------------
(* Claims about the pure functions, checked under SpecUnit *)

\* FieldDescriptor.type
KafkaTypes == {"int32", "int64", "float32", "float64", "double", "boolean", "string", "bytes"}

\* the target type the design documents for a known type name (its section 4.1):
\* integer widths, floating-point widths, numeric/decimal -> double, text and
\* character variants -> string, boolean variants -> boolean, binary -> bytes,
\* timestamp-like -> int64, date and time -> int32
DocumentedType(n) ==
    CASE n \in {<<"b","i","g","i","n","t">>}                                   -> "int64"
      [] n \in {<<"i","n","t","e","g","e","r">>, <<"i","n","t">>, <<"s","m","a","l","l","i","n","t">>}               -> "int32"
      [] n \in {<<"r","e","a","l">>}                                     -> "float32"
      [] n \in {<<"d","o","u","b","l","e"," ","p","r","e","c","i","s","i","o","n">>, <<"d","o","u","b","l","e">>}               -> "float64"
      [] n \in {<<"n","u","m","e","r","i","c">>, <<"d","e","c","i","m","a","l">>}                       -> "double"
      [] n \in {<<"t","e","x","t">>, <<"v","a","r","c","h","a","r">>, <<"c","h","a","r">>, <<"c","h","a","r","a","c","t","e","r">>, <<"c","h","a","r","a","c","t","e","r"," ","v","a","r","y","i","n","g">>} -> "string"
      [] n \in {<<"b","o","o","l","e","a","n">>, <<"b","o","o","l">>}                          -> "boolean"
      [] n \in {<<"b","y","t","e","a">>}                                    -> "bytes"
      [] n \in {<<"t","i","m","e","s","t","a","m","p">>, <<"t","i","m","e","s","t","a","m","p"," ","w","i","t","h"," ","t","i","m","e"," ","z","o","n","e">>, <<"t","i","m","e","s","t","a","m","p"," ","w","i","t","h","o","u","t"," ","t","i","m","e"," ","z","o","n","e">>} -> "int64"
      [] n \in {<<"d","a","t","e">>, <<"t","i","m","e">>, <<"t","i","m","e"," ","w","i","t","h"," ","t","i","m","e"," ","z","o","n","e">>, <<"t","i","m","e"," ","w","i","t","h","o","u","t"," ","t","i","m","e"," ","z","o","n","e">>} -> "int32"

\* C1: map_type returns for every string; a basic or temporal type name, in any
\* letter case and with whitespace around it, gets its documented target type
\* (a temporal name also a non-empty logical type and version 1); every other
\* string gets 'string' with no logical type, and a warning is logged.
C1_MapTypeTotal ==
    u_op = "map_type" =>
        /\ u_ret.kafka_type \in KafkaTypes
        /\ (~IsNone(u_src) /\ Get(u_src) \in DOMAIN TYPE_MAP) =>
              /\ u_ret.kafka_type = DocumentedType(Get(u_src))
              /\ IsNone(u_ret.logical_type)
              /\ IsNone(u_ret.extra_props)
        /\ (~IsNone(u_src) /\ Get(u_src) \in DOMAIN TEMPORAL_TYPES) =>
              /\ u_ret.kafka_type = DocumentedType(Get(u_src))
              /\ ~IsNone(u_ret.logical_type)
              /\ Get(u_ret.logical_type) \in {TS, DT, TM}
              /\ Get(u_ret.logical_type) # ""
              /\ u_ret.extra_props = Some([version |-> 1])
        /\ IsNone(u_src) =>
              /\ u_ret.kafka_type = "string"
              /\ IsNone(u_ret.logical_type)
              /\ IsNone(u_ret.extra_props)
              /\ \E i \in 1..Len(log) :
                    log[i].level = "WARNING" /\ log[i].subject = u_arg

\* C1's case: " TIMESTAMP WITH TIME ZONE\n" was mapped to int64 with the
\* Timestamp logical type
C1_Witness ==
    /\ u_op = "map_type"
    /\ u_arg = <<" ","T","I","M","E","S","T","A","M","P"," ","W","I","T","H"," ","T","I","M","E"," ","Z","O","N","E","\n">>
    /\ u_src = Some(<<"t","i","m","e","s","t","a","m","p"," ","w","i","t","h"," ","t","i","m","e"," ","z","o","n","e">>)
    /\ u_ret.kafka_type = "int64"
    /\ u_ret.logical_type = Some(TS)

\* C2: generate_schema returns as many fields as the sink has columns, the
\* i-th field built from the i-th column: field = name, optional = nullable,
\* type = map_type(type).
C2_FieldsFollowColumns ==
    u_op = "generate_schema" =>
        /\ Len(u_ret.fields) = Len(u_arg.columns)
        /\ \A i \in 1..Len(u_arg.columns) :
              /\ i \in DOMAIN u_ret.fields
              /\ u_ret.fields[i].field = u_arg.columns[i].name
              /\ u_ret.fields[i].optional = u_arg.columns[i].nullable
              /\ u_ret.fields[i].type = map_type(u_arg.columns[i].type).kafka_type

\* C2's case: a sink of three columns, the second nullable and of a type that
\* falls back to string, got its three fields
C2_Witness ==
    /\ u_op = "generate_schema"
    /\ Len(u_arg.columns) = 3
    /\ u_arg.columns[1].name = "id"
    /\ u_arg.columns[2].name = "payload" /\ u_arg.columns[2].nullable
    /\ u_arg.columns[3].name = "born"
    /\ Len(u_ret.fields) = 3
    /\ u_ret.fields[2].field = "payload"

\* id bigint not null, email text null, created_at timestamp not null
ExampleColumns ==
    Columns(<< [name |-> "id",         type |-> <<"b","i","g","i","n","t">>, nullable |-> FALSE],
               [name |-> "email",      type |-> <<"t","e","x","t">>, nullable |-> TRUE],
               [name |-> "created_at", type |-> <<"t","i","m","e","s","t","a","m","p">>, nullable |-> FALSE] >>)

ExampleFields ==
    << [type |-> "int64", optional |-> FALSE, field |-> "id"],
       [type |-> "string", optional |-> TRUE, field |-> "email"],
       [type |-> "int64", optional |-> FALSE, field |-> "created_at",
        name |-> TS, version |-> 1] >>

\* C3: a field carries 'name' (and version = 1) exactly when its column's type,
\* lower-cased and trimmed, is a temporal type name; and the three example
\* columns give the three example fields.
C3_LogicalIffTemporal ==
    u_op = "generate_schema" =>
        /\ \A i \in 1..Len(u_arg.columns) :
              LET f == u_ret.fields[i]
                  t == Strip(Lower(u_arg.columns[i].type))
              IN  /\ ("name" \in DOMAIN f) <=> (t \in DOMAIN TEMPORAL_TYPES)
                  /\ ("version" \in DOMAIN f) <=> (t \in DOMAIN TEMPORAL_TYPES)
                  /\ t \in DOMAIN TEMPORAL_TYPES =>
                        /\ f["name"] = TEMPORAL_TYPES[t][2]
                        /\ f["version"] = 1
        /\ u_arg.columns = ExampleColumns => u_ret.fields = ExampleFields

\* C3's case: the example sink was given and its third field is annotated
C3_Witness ==
    /\ u_op = "generate_schema"
    /\ u_arg.columns = ExampleColumns
    /\ "name" \in DOMAIN u_ret.fields[3]
    /\ "name" \notin DOMAIN u_ret.fields[1]


\* every sink that zip pairs with a schema has a topic
TopicsPresent(a) ==
    \A i \in 1..Min(Len(a.sinks), Len(a.schemas)) : ~IsNone(a.sinks[i].topic)

-----------------------------------------------------------------------------
(* Claims about a run, checked under Spec *)

\* some object named object_name, a materialized view or a table, has a column
Resolves(d, object_name) ==
    \E c \in d.mz_columns :
        \E o \in d.mz_materialized_views \cup d.mz_tables :
            o.id = c.id /\ o.name = object_name

\* the row's SQL has a source-object clause and the object has columns
Emitted(row) ==
    /\ \E i \in 1..Len(row.create_sql) : SourceMatchAt(row.create_sql, i)
    /\ Resolves(db, Get(_parse_create_sink(row.create_sql).source_object))

\* what get_sinks keeps of a list of rows
Kept(rows) ==
    LET sel == SelectSeq(rows, Emitted)
    IN  [i \in 1..Len(sel) |->
            <<sel[i].sink_name, _parse_create_sink(sel[i].create_sql).source_object>>]

Found(sink_list) ==
    [i \in 1..Len(sink_list) |-> <<sink_list[i].name, Some(sink_list[i].source_object)>>]

\* C4: get_sinks returns exactly the rows, in the order of the query's result,
\* whose SQL has a parsable source object that resolves to at least one
\* column; every other row is skipped with a warning and stops no other row.
C4_PartialFailure ==
    /\ pc = "loop" => Found(sinks) = Kept(SubSeq(sink_rows, 1, row_i - 1))
    /\ pc = "returned" => Found(sinks) = Kept(sink_rows)
    /\ pc \in {"loop", "returned"} =>
          \A k \in 1..Len(sink_rows) :
              (k < row_i /\ ~Emitted(sink_rows[k])) =>
                  \E n \in 1..Len(log) :
                      /\ log[n].level = "WARNING"
                      /\ log[n].kind \in {"no_source_object", "no_columns"}
                      /\ log[n].subject = sink_rows[k].sink_name

\* C4's case: the first row of the batch was skipped and the second emitted
C4_Witness ==
    /\ pc = "returned"
    /\ Len(sink_rows) = 2
    /\ ~Emitted(sink_rows[1])
    /\ Emitted(sink_rows[2])
    /\ Len(sinks) = 1
    /\ sinks[1].name = sink_rows[2].sink_name

\* C5: malformed SQL never fails the run: an exception that reaches main's
\* handler is a failure of the catalog connection (or of writing the output
\* file), so a batch with a sink whose TOPIC clause does not parse but whose
\* source object does still completes.
C5_MalformedSqlNeverRaises ==
    ~IsNone(exc) => Get(exc) \in {"psycopg2.Error", "OSError"}

\* C6: once get_sinks has returned or raised, a connection it opened is closed.
C6_ConnectionReleased ==
    (pc \in {"returned", "generate", "format", "write", "except", "exit"}
        /\ conn # "none") => conn = "closed"

\* the run got past the command line and the environment (lines 442-454)
InTry == ~IsNone(port)

HasLog(level, kind) ==
    \E n \in 1..Len(log) : log[n].level = level /\ log[n].kind = kind

\* the exit-code contract of a run that has its exit status
ExitContract ==
    /\ Get(exit_code) \in {0, 1}
    /\ Get(exit_code) = 0 <=> (sinks # <<>> /\ ~IsNone(artifact))
    /\ (sinks = <<>> /\ ~HasLog("ERROR", "error") /\ ~HasLog("ERROR", "connect_failed")) =>
          /\ HasLog("ERROR", "no_sinks_found")
          /\ IsNone(artifact)
          /\ Get(exit_code) = 1
    /\ (HasLog("ERROR", "error") \/ HasLog("ERROR", "connect_failed")) =>
          Get(exit_code) = 1

\* C7 as stated: every run ends with exit code 0 or 1 and no exception leaves
\* main; 0 exactly when a sink was emitted and the artifact written; no sinks,
\* a connection failure and any other raised error give 1.
C7_ExitCodes ==
    /\ IsNone(escaped)
    /\ ~IsNone(exit_code) => ExitContract

\* the run can take a step (GenerateSchemas has no guard but its place)
CanStep ==
    \/ pc = "generate"
    \/ ENABLED (Connect \/ QuerySinks \/ ProcessRow \/ ReturnSinks \/ CheckSinks
                   \/ FormatOutput \/ WriteOutput \/ HandleException)

\* C7 amended: a run whose command line argparse accepts and whose
\* MATERIALIZE_PORT is unset or an integer ends with exit code 0 or 1 and no
\* exception leaves main, with the same meaning of 0 and 1; until it has its
\* exit status it can take a step.
C7_ExitCodesInTry ==
    InTry =>
        /\ IsNone(escaped)
        /\ ~IsNone(exit_code) => ExitContract
        /\ IsNone(exit_code) => CanStep
        /\ ~IsNone(artifact) => exit_code = Some(0)

\* C7's case: the name filter matched no sink; the run logged the warning and
\* the error, wrote nothing and ended with 1
C7_Witness ==
    /\ pc = "exit"
    /\ InTry
    /\ args.sinks = Some(<<"s9">>)
    /\ mz_sinks # <<>>
    /\ sinks = <<>>
    /\ HasLog("WARNING", "no_kafka_sinks")
    /\ HasLog("ERROR", "no_sinks_found")
    /\ IsNone(artifact)
    /\ exit_code = Some(1)
    /\ IsNone(escaped)

\* the positions of t that no occurrence of the marker covers (the marker
\* cannot overlap itself: "-" is only its first character)
Uncovered(t) ==
    {i \in 1..Len(t) :
        ~\E p \in 1..i : MatchAt(t, MARKER, p) /\ i < p + Len(MARKER)}

\* the characters of t at the positions in keep, in order
RECURSIVE Pick(_, _, _)
Pick(t, keep, i) ==
    IF i > Len(t) THEN <<>>
    ELSE (IF i \in keep THEN <<t[i]>> ELSE <<>>) \o Pick(t, keep, i + 1)

ExpectedOutputTopic(t, suffix) == Pick(t, Uncovered(t), 1) \o suffix

DerivedAsExpected(input_topic, output_topic, suffix) ==
    /\ output_topic = ExpectedOutputTopic(input_topic, suffix)
    /\ ~Contains(input_topic, MARKER) => output_topic = input_topic \o suffix
    /\ (input_topic = <<"o","r","d","e","r","s","-","n","o","s","c","h","e","m","a">> /\ suffix = <<"-","w","i","t","h","s","c","h","e","m","a">>) =>
          output_topic = <<"o","r","d","e","r","s","-","w","i","t","h","s","c","h","e","m","a">>

\* C8: in both encodings the output topic of a sink is its input topic with
\* the marker '-noschema' removed and the suffix appended;
\* 'orders-noschema' with '-withschema' gives 'orders-withschema'.
C8_DerivedOutputTopic ==
    ~IsNone(output) =>
        LET o == Get(output)
        IN  IF o.format = "properties"
            THEN \A i \in 1..Len(sinks) :
                    LET l == o.lines[4 * i + 2]
                    IN  /\ l.kind = "output.topic"
                        /\ l.key = Get(sinks[i].topic)
                        /\ DerivedAsExpected(l.key, l.value, args.output_suffix)
            ELSE /\ \A i \in 1..Len(sinks) :
                        \E n \in 1..Len(o.entries) : o.entries[n].key = sinks[i].name
                 /\ \A n \in 1..Len(o.entries) :
                        /\ \E i \in 1..Len(sinks) :
                              /\ sinks[i].name = o.entries[n].key
                              /\ Get(sinks[i].topic) = o.entries[n].value.input_topic
                        /\ DerivedAsExpected(o.entries[n].value.input_topic,
                                             o.entries[n].value.output_topic,
                                             args.output_suffix)

\* C8's case: the JSON encoding of a sink on 'orders-noschema' under the
\* suffix '-withschema'
C8_Witness ==
    /\ ~IsNone(output)
    /\ Get(output).format = "json"
    /\ args.output_suffix = <<"-","w","i","t","h","s","c","h","e","m","a">>
    /\ \E n \in 1..Len(Get(output).entries) :
          /\ Get(output).entries[n].value.input_topic = <<"o","r","d","e","r","s","-","n","o","s","c","h","e","m","a">>
          /\ Get(output).entries[n].value.output_topic = <<"o","r","d","e","r","s","-","w","i","t","h","s","c","h","e","m","a">>

\* C9: both encodings hold one entry per (sink, schema) pair, in order: the
\* properties text four lines per pair after its heading, the JSON object one
\* member per sink, keyed by the sink's name and holding that sink's schema.
C9_OneEntryPerSink ==
    ~IsNone(output) =>
        LET o == Get(output)
        IN  IF o.format = "properties"
            THEN /\ Len(o.lines) = 3 + 4 * Len(sinks)
                 /\ \A i \in 1..Len(sinks) :
                       /\ o.lines[4 * i].kind = "comment"
                       /\ o.lines[4 * i + 1].kind = "schema.topic"
                       /\ o.lines[4 * i + 1].key = Get(sinks[i].topic)
                       /\ o.lines[4 * i + 1].value = schemas[i]
                       /\ o.lines[4 * i + 2].kind = "output.topic"
                       /\ o.lines[4 * i + 2].key = Get(sinks[i].topic)
                       /\ o.lines[4 * i + 3].kind = "blank"
            ELSE /\ Len(o.entries) = Len(sinks)
                 /\ \A i \in 1..Len(sinks) :
                       /\ o.entries[i].key = sinks[i].name
                       /\ o.entries[i].value.input_topic = Get(sinks[i].topic)
                       /\ o.entries[i].value.source_object = sinks[i].source_object
                       /\ o.entries[i].value.schema = schemas[i]

\* the name filter is given
Filtered == ~IsNone(args.sinks)

\* row r of mz_sinks is of type kafka and passes the name filter
Selected(r) ==
    /\ r.type = "kafka"
    /\ Filtered => r.name \in Range(Get(args.sinks))

LookupSelects(catalog, object_name) ==
    IF catalog = "mz_materialized_views"
    THEN ViewRows(db, object_name)
    ELSE TableRows(db, object_name)

\* what a fetched row has of a catalog row
FetchedRow(c) == Column(c.name, c.type, c.nullable, c.position)

\* rows holds each selected catalog row once, and nothing else
FetchedFrom(rows, selected) ==
    /\ Len(rows) = Cardinality(selected)
    /\ \A c \in selected :
          Cardinality({i \in 1..Len(rows) : rows[i] = FetchedRow(c)})
              = Cardinality({e \in selected : FetchedRow(e) = FetchedRow(c)})

\* the lookup fetched at least one row
Matching(l) == ~IsNone(l.rows) /\ Get(l.rows) # <<>>

\* the lookup fetched no row
Empty(l) == l.rows = Some(<<>>)

\* C12: for every sink row with a source object the materialized-view lookup
\* is issued, and first; the table lookup is issued only after a
\* materialized-view lookup of the same name that fetched no rows, and always
\* then; the rows of the lookup that fetched some, in their order (positions
\* ascending), are the columns of the sink; when both fetch none the row gives
\* no sink and a warning.
C12_ColumnResolutionOrder ==
    /\ \A k \in 1..Len(lookups) :
          LET l == lookups[k]
          IN  /\ l.catalog \in {"mz_materialized_views", "mz_tables"}
              /\ l.row \in 1..Len(sink_rows)
              /\ l.catalog = "mz_materialized_views" =>
                    /\ k = 1 \/ lookups[k - 1].row < l.row
                    /\ Some(l.object_name) =
                          _parse_create_sink(sink_rows[l.row].create_sql).source_object
              /\ l.catalog = "mz_tables" =>
                    /\ k > 1
                    /\ lookups[k - 1] =
                          Lookup(l.row, "mz_materialized_views", l.object_name, Some(<<>>))
              /\ (l.catalog = "mz_materialized_views" /\ Empty(l)) =>
                    /\ k < Len(lookups)
                    /\ lookups[k + 1].catalog = "mz_tables"
                    /\ lookups[k + 1].row = l.row
              /\ ~IsNone(l.rows) =>
                    /\ FetchedFrom(Get(l.rows), LookupSelects(l.catalog, l.object_name))
                    /\ \A i, j \in 1..Len(Get(l.rows)) :
                          i < j => Get(l.rows)[i].position <= Get(l.rows)[j].position
              /\ (l.catalog = "mz_tables" /\ Empty(l)) =>
                    /\ \E n \in 1..Len(log) :
                          /\ log[n].level = "WARNING"
                          /\ log[n].kind = "no_columns"
                          /\ log[n].subject = sink_rows[l.row].sink_name
                    /\ \A m \in 1..Len(lookups) : lookups[m].row = l.row => ~Matching(lookups[m])
    /\ pc \in {"loop", "returned"} =>
          \A r \in 1..Len(sink_rows) :
              (r < row_i /\ ~IsNone(_parse_create_sink(sink_rows[r].create_sql).source_object)) =>
                  \E k \in 1..Len(lookups) :
                      /\ lookups[k].row = r
                      /\ lookups[k].catalog = "mz_materialized_views"
    /\ LET matched == SelectSeq(lookups, Matching)
       IN  [i \in 1..Len(matched) |-> Get(matched[i].rows)]
              = [i \in 1..Len(sinks) |-> sinks[i].columns]

\* C12's case: the first sink's object was found by the table lookup after the
\* materialized-view lookup fetched nothing, and the second sink's object by
\* neither, so that get_sinks returned the first sink only
C12_Witness ==
    /\ pc = "returned"
    /\ Len(lookups) = 4
    /\ lookups[1].catalog = "mz_materialized_views" /\ Empty(lookups[1])
    /\ lookups[2].catalog = "mz_tables" /\ Matching(lookups[2])
    /\ lookups[3].catalog = "mz_materialized_views" /\ Empty(lookups[3])
    /\ lookups[4].catalog = "mz_tables" /\ Empty(lookups[4])
    /\ lookups[4].row = 2
    /\ Len(sinks) = 1
    /\ sinks[1].columns = Get(lookups[2].rows)

\* the id of the object a sink exports: the id of FROM [<id> AS ...] in its SQL
ExportedId(create_sql) ==
    create_sql[First({i \in 1..Len(create_sql) : SourceMatchAt(create_sql, i)}) + 2].t

\* C13: the columns of every sink get_sinks has built are the columns of the
\* one catalog object the sink exports, in ascending position with no
\* position repeated, whatever other objects of the same name the catalog has.
C13_ColumnsOfOneObject ==
    LET matched == SelectSeq(lookups, Matching)
    IN  /\ Len(matched) = Len(sinks)
        /\ \A i \in 1..Len(sinks) :
              LET exported == ExportedId(sink_rows[matched[i].row].create_sql)
                  own == {c \in db.mz_columns : c.id = exported}
              IN  /\ sinks[i].columns \in {ColumnsOf(ordered) : ordered \in OrderByPosition(own)}
                  /\ \A j, k \in 1..Len(sinks[i].columns) :
                        j < k => sinks[i].columns[j].position < sinks[i].columns[k].position
=============================================================================
